---- MODULE Spec2Model ----
(***************************************************************************)
(* A model of io-obs/util/overlay.cpp: the overlay's load / unload / draw  *)
(* lifecycle and the refresh protocol that merges producer state into the  *)
(* overlay's element data under hook::mutex and network::mutex.            *)
(***************************************************************************)
EXTENDS Integers, Sequences, FiniteSets, TLC

(***************************************************************************)
(* Bounds of the model.                                                    *)
(***************************************************************************)
\* Longest chain of element descriptors in a layout document.
MaxChain == 3
\* Number of environment events (producer writes, settings changes by the
\* host) in one behaviour.
MaxEvents == 1

(***************************************************************************)
(* Program constants.                                                      *)
(***************************************************************************)
\* m_settings->cx = 100; m_settings->cy = 100;  /* Default size */
DefaultSize == 100

\* Pixel size <<cx, cy>> of the image file when it can be loaded, and the
\* total width / height a layout document states.
ImageSize == <<64, 32>>
LayoutSize == <<48, 24>>

\* Key codes the layouts and the producers use (0: no key, 0x01, 0x41).
Keycodes == {0, 1, 65}
\* The key codes a producer reports by key code alone (keys and mouse), and
\* those it reports per gamepad.
KeyboardKeys == {1, 65}
PadKeys == {65}
\* Gamepad indexes.
Pads == {0, 1}
\* Values of the selected-source setting: 0 is the local source, n > 0 is
\* remote client n - 1.
Sources == {0, 1, 2}
\* Indexes of the remote clients that are connected to the server.
Clients == {0}

STATE_RELEASED == "STATE_RELEASED"
STATE_PRESSED == "STATE_PRESSED"
\* A fragment a data holder gives for a lookup: a state, or nothing.
NoFragment == "nullptr"
Fragments == {NoFragment, STATE_RELEASED, STATE_PRESSED}

\* The null unique_ptr<element_data> that std::map::operator[] inserts.
NullData == [kind |-> "nullptr", state |-> "nullptr"]

(***************************************************************************)
(* The layout document (a ccl_config): a parse outcome and a chain of      *)
(* element descriptors, each naming the next by its position.              *)
(***************************************************************************)
\* One descriptor: its type tag, key code, source affinity, and the error
\* level that reading it adds to the configuration ("none", "error",
\* "fatal").
Desc(t, k, s, e) == [type |-> t, keycode |-> k, source |-> s, err |-> e]

Descriptors ==
    { Desc("BUTTON", 65, "DEFAULT", "none"),
      Desc("BUTTON", 1, "DEFAULT", "fatal"),
      Desc("MOUSE_SCROLLWHEEL", 1, "DEFAULT", "none"),
      Desc("TEXTURE", 0, "NONE", "none"),
      Desc("TRIGGER", 65, "GAMEPAD", "error"),
      Desc("TEXT", 0, "NONE", "none"),
      Desc("INVALID", 1, "DEFAULT", "none"),
      Desc("MOUSE_MOVEMENT", 1, "MOUSE_POS", "none") }

Chains == UNION { [1..n -> Descriptors] : n \in 0..MaxChain }

\* parse: the error level the document has once it is opened and parsed.
Layouts == [parse : {"none", "error", "fatal"}, chain : Chains]

\* The layout of the specification's scenario: two Buttons on 0x41 and a
\* Wheel on 0x01, and a gamepad layout: a Trigger, a Texture and a mouse
\* movement element, one per source affinity that is not DEFAULT.
ScenarioChains ==
    { << Desc("BUTTON", 65, "DEFAULT", "none"),
         Desc("BUTTON", 65, "DEFAULT", "none"),
         Desc("MOUSE_SCROLLWHEEL", 1, "DEFAULT", "none") >>,
      << Desc("TRIGGER", 65, "GAMEPAD", "error"),
         Desc("TEXTURE", 0, "NONE", "none"),
         Desc("MOUSE_MOVEMENT", 1, "MOUSE_POS", "none") >> }

\* The scenario layout without and with a non-fatal parse error, and the
\* gamepad layout (whose Trigger adds a non-fatal error).
ScenarioDocuments ==
    { doc \in [parse : {"none", "error"}, chain : ScenarioChains] :
        doc.parse = "error" => doc.chain[1].type = "BUTTON" }

ErrRank(e) == CASE e = "none" -> 0 [] e = "error" -> 1 [] e = "fatal" -> 2
ErrMax(a, b) == IF ErrRank(a) >= ErrRank(b) THEN a ELSE b


(***************************************************************************)
(* The state of the program.                                               *)
(***************************************************************************)
VARIABLES
    \* sources::shared_settings, owned by the host
    image_file,         \* "" | "good" (loads) | "bad" (does not load)
    layout_file,        \* "" | "layout"
    document,           \* the layout document layout_file names
    selected_source,
    gamepad,
    cx, cy,
    \* overlay
    m_is_loaded,
    m_elements,         \* sequence of [type, keycode, source]
    m_data,             \* std::map: key code -> record, or NullData
    m_image,            \* m_image->loaded
    \* hook:: (the local producer)
    hook_mutex,         \* "free" | "render" | "hook"
    data_initialized,
    input_data,         \* the local data holder
    \* network:: (the remote producer)
    network_mutex,      \* "free" | "render" | "network"
    network_flag,
    server_instance,    \* TRUE: a server exists
    client_data,        \* client index -> that client's data holder
    \* the render thread, inside overlay::refresh_data
    pc,                 \* "idle" | "lck2" | "select" | "pull" | "unlock"
    source,             \* the local variable source
    idx,                \* position of the range-for over m_elements
    \* what the last overlay operation did
    last_op,            \* "ctor" | "load" | "unload" | "draw" | "refresh" | "settings"
    ret,                \* what the last load() returned
    load_over,          \* what the last operation, a load(), was called on:
                        \* "blank" (by the constructor), "fresh" (the
                        \* collections of a load nothing touched since),
                        \* "changed"; "none" after any other operation
    calls,              \* the calls it made on elements, records, holders
    events              \* environment events left in this behaviour

settings_vars == << image_file, layout_file, document, selected_source >>
overlay_vars == << gamepad, cx, cy, m_is_loaded, m_elements, m_data, m_image >>
hook_vars == << data_initialized, input_data >>
network_vars == << network_flag, server_instance, client_data >>
refresh_vars == << pc, source, idx >>
vars == << settings_vars, overlay_vars, hook_mutex, hook_vars,
           network_mutex, network_vars, refresh_vars, last_op, ret, load_over,
           load_over, calls, events >>

(***************************************************************************)
(* ccl_config: the error state of a layout document.                       *)
(***************************************************************************)
RECURSIVE ChainLevel(_, _)
\* The highest error level reading descriptors 1..n of the chain adds.
ChainLevel(chain, n) ==
    IF n = 0 THEN "none" ELSE ErrMax(ChainLevel(chain, n - 1), chain[n].err)

\* cfg->has_fatal_errors() right after the document is opened.
ParseFatal(doc) == doc.parse = "fatal"

\* The error level once load_cfg has walked the chain (it walks it only
\* when the document parsed without a fatal error).
LevelAfterLoad(doc) ==
    IF ParseFatal(doc) THEN "fatal"
    ELSE ErrMax(doc.parse, ChainLevel(doc.chain, Len(doc.chain)))

has_errors(doc) == LevelAfterLoad(doc) # "none"
has_fatal_errors(doc) == LevelAfterLoad(doc) = "fatal"

(***************************************************************************)
(* overlay::load_element                                                   *)
(***************************************************************************)
\* The type tags the switch of load_element builds an element for.
ElementTypes ==
    { "TEXTURE", "BUTTON", "MOUSE_SCROLLWHEEL", "TRIGGER", "ANALOG_STICK",
      "GAMEPAD_ID", "DPAD_STICK", "MOUSE_MOVEMENT" }

load_element(elements, d) ==
    IF d.type \in ElementTypes
    THEN Append(elements,
                [type |-> d.type, keycode |-> d.keycode, source |-> d.source])
    ELSE elements

RECURSIVE load_chain_stopping(_, _, _)
\* load_chain with a fault: the walk ends at the first descriptor that
\* makes no element.
load_chain_stopping(elements, chain, i) ==
    IF i > Len(chain) \/ chain[i].type \notin ElementTypes THEN elements
    ELSE load_chain_stopping(load_element(elements, chain[i]), chain, i + 1)

RECURSIVE load_chain(_, _, _)
\* while (!element_id.empty()) { load_element(...); element_id = next; }
load_chain(elements, chain, i) ==
    IF i > Len(chain) THEN elements
    ELSE load_chain(load_element(elements, chain[i]), chain, i + 1)

(***************************************************************************)
(* overlay::load_cfg                                                       *)
(***************************************************************************)
\* The record the switch of load_cfg allocates for an element type.
new_data(type) ==
    CASE type = "BUTTON" -> [kind |-> "button", state |-> STATE_RELEASED]
      [] type = "MOUSE_SCROLLWHEEL" -> [kind |-> "wheel", state |-> STATE_RELEASED]
      [] type = "TRIGGER" -> [kind |-> "trigger", state |-> STATE_RELEASED]
      [] type = "ANALOG_STICK" -> [kind |-> "analog_stick", state |-> STATE_RELEASED]
      [] type = "DPAD_STICK" -> [kind |-> "dpad", state |-> STATE_RELEASED]
      [] type = "MOUSE_MOVEMENT" -> [kind |-> "mouse_stats", state |-> STATE_RELEASED]
      [] OTHER -> NullData

\* An empty std::map.
EmptyMap == [k \in {} |-> NullData]

\* m_data[key] = value
MapPut(map, key, value) ==
    [k \in DOMAIN map \cup {key} |-> IF k = key THEN value ELSE map[k]]

RECURSIVE populate_keeping_first(_, _, _)
\* populate with a fault: a key code that has a record keeps it.
populate_keeping_first(data, elements, i) ==
    IF i > Len(elements) THEN data
    ELSE LET rec == new_data(elements[i].type)
         IN  populate_keeping_first(
                 IF rec # NullData /\ elements[i].keycode \notin DOMAIN data
                 THEN MapPut(data, elements[i].keycode, rec)
                 ELSE data,
                 elements, i + 1)

RECURSIVE populate(_, _, _)
\* for (auto const& element : m_elements) { ...; if (data) m_data[keycode] = data; }
populate(data, elements, i) ==
    IF i > Len(elements) THEN data
    ELSE LET rec == new_data(elements[i].type)
         IN  populate(IF rec # NullData
                      THEN MapPut(data, elements[i].keycode, rec)
                      ELSE data,
                      elements, i + 1)

\* The data map is populated when the configuration has errors, none fatal.
populates(doc) == has_errors(doc) /\ ~has_fatal_errors(doc)

\* load_cfg with a fault: the fatal errors met while reading the document
\* do not clear the returned flag.
load_cfg_ignoring_fatal(o, file, doc) ==
    IF file = "" THEN [o EXCEPT !.flag = FALSE]
    ELSE LET walked == ~ParseFatal(doc)
             elements == IF walked THEN load_chain(o.m_elements, doc.chain, 1)
                         ELSE o.m_elements
         IN  [o EXCEPT
                !.cx = IF walked THEN LayoutSize[1] ELSE @,
                !.cy = IF walked THEN LayoutSize[2] ELSE @,
                !.m_elements = elements,
                !.m_data = IF populates(doc) THEN populate(@, elements, 1) ELSE @,
                !.flag = TRUE]

\* o: the overlay and its settings, [gamepad, cx, cy, m_is_loaded,
\* m_elements, m_data, m_image]; the result adds flag, the returned value.
load_cfg(o, file, doc) ==
    IF file = "" THEN [o EXCEPT !.flag = FALSE]
    ELSE LET walked == ~ParseFatal(doc)
             elements == IF walked THEN load_chain(o.m_elements, doc.chain, 1)
                         ELSE o.m_elements
         IN  [o EXCEPT
                !.cx = IF walked THEN LayoutSize[1] ELSE @,
                !.cy = IF walked THEN LayoutSize[2] ELSE @,
                !.m_elements = elements,
                !.m_data = IF populates(doc) THEN populate(@, elements, 1) ELSE @,
                !.flag = ~has_fatal_errors(doc)]

(***************************************************************************)
(* overlay::load_texture, overlay::unload, overlay::load                   *)
(***************************************************************************)
load_texture(o, file) ==
    IF file = "" THEN [o EXCEPT !.flag = FALSE]
    ELSE IF file # "good" THEN [o EXCEPT !.m_image = FALSE, !.flag = FALSE]
    ELSE [o EXCEPT !.m_image = TRUE, !.cx = ImageSize[1], !.cy = ImageSize[2],
                   !.flag = TRUE]

\* unload with a fault: m_data is not cleared.
unload_keeping_data(o) ==
    [o EXCEPT !.m_image = FALSE, !.m_elements = << >>,
              !.gamepad = 0, !.cx = DefaultSize, !.cy = DefaultSize]

unload(o) ==
    [o EXCEPT !.m_image = FALSE, !.m_elements = << >>, !.m_data = EmptyMap,
              !.gamepad = 0, !.cx = DefaultSize, !.cy = DefaultSize]

\* load with a fault: a failed load resets the size whether or not the
\* image was loaded.
load_resetting_size(o, image, file, doc) ==
    LET t == load_texture(unload(o), image)
        image_loaded == t.flag
        c == IF image_loaded THEN load_cfg(t, file, doc) ELSE t
        loaded == image_loaded /\ c.flag
    IN  [c EXCEPT
           !.m_is_loaded = loaded,
           !.gamepad = IF ~loaded THEN 0 ELSE @,
           !.cx = IF ~loaded THEN DefaultSize ELSE @,
           !.cy = IF ~loaded THEN DefaultSize ELSE @,
           !.flag = loaded]

load(o, image, file, doc) ==
    LET t == load_texture(unload(o), image)
        image_loaded == t.flag
        c == IF image_loaded THEN load_cfg(t, file, doc) ELSE t
        loaded == image_loaded /\ c.flag
    IN  [c EXCEPT
           !.m_is_loaded = loaded,
           !.gamepad = IF ~loaded THEN 0 ELSE @,
           !.cx = IF ~loaded /\ ~image_loaded THEN DefaultSize ELSE @,
           !.cy = IF ~loaded /\ ~image_loaded THEN DefaultSize ELSE @,
           !.flag = loaded]


(***************************************************************************)
(* overlay::draw                                                           *)
(***************************************************************************)
\* m_data[key] of a std::map: a missing key is inserted with a null record.
MapTouch(map, key) ==
    IF key \in DOMAIN map THEN map ELSE MapPut(map, key, NullData)

MapGet(map, key) == IF key \in DOMAIN map THEN map[key] ELSE NullData

RECURSIVE draw_data(_, _, _)
\* The data map after the loop of draw has looked up elements i, i+1, ...
draw_data(data, elements, i) ==
    IF i > Len(elements) THEN data
    ELSE draw_data(MapTouch(data, elements[i].keycode), elements, i + 1)

\* draw_calls with a fault: m_is_loaded is not tested.
draw_calls_unguarded(loaded, data, elements) ==
    [i \in 1..Len(elements) |->
        [call |-> "draw", element |-> i, keycode |-> elements[i].keycode,
         data |-> MapGet(data, elements[i].keycode)]]

\* draw_calls with a fault: the Elements are visited last to first.
draw_calls_reversed(loaded, data, elements) ==
    IF loaded
    THEN [i \in 1..Len(elements) |->
            LET j == Len(elements) + 1 - i
            IN  [call |-> "draw", element |-> j,
                 keycode |-> elements[j].keycode,
                 data |-> MapGet(data, elements[j].keycode)]]
    ELSE << >>

\* The element->draw(effect, m_image, data, m_settings) calls of one draw().
draw_calls(loaded, data, elements) ==
    IF loaded
    THEN [i \in 1..Len(elements) |->
            [call |-> "draw", element |-> i, keycode |-> elements[i].keycode,
             data |-> MapGet(data, elements[i].keycode)]]
    ELSE << >>

(***************************************************************************)
(* Data holders (element_data_holder) and element_data::merge              *)
(***************************************************************************)
\* A data holder: fragments by key code, and by gamepad and key code.
\* alloc: the pointer to it is not null.
NoHolder ==
    [alloc |-> FALSE,
     code |-> [k \in Keycodes |-> NoFragment],
     pad |-> [g \in Pads |-> [k \in Keycodes |-> NoFragment]]]

get_by_code(holder, keycode) == holder.code[keycode]

get_by_gamepad(holder, g, keycode) ==
    IF g \in Pads THEN holder.pad[g][keycode] ELSE NoFragment

\* data->merge(fragment): the record takes the fragment's state; a null
\* fragment changes nothing.
merge(rec, fragment) ==
    IF fragment = NoFragment THEN rec ELSE [rec EXCEPT !.state = fragment]

(***************************************************************************)
(* overlay::refresh_data                                                   *)
(***************************************************************************)
NoSource == [holder |-> "nullptr", client |-> 0]
HookSource == [holder |-> "hook", client |-> 0]
ClientSource(c) == [holder |-> "client", client |-> c]

\* network::server_instance->get_client(c)->get_data()
get_client_data(clients, c) ==
    IF c \in DOMAIN clients /\ clients[c].alloc THEN ClientSource(c) ELSE NoSource

\* The holder a source points to.
HolderOf(src, local, clients) ==
    IF src.holder = "hook" THEN local
    ELSE IF src.holder = "client" THEN clients[src.client]
    ELSE NoHolder

\* select_source with a fault: the remote client is chosen by the network
\* flag, not by the server handle.
select_source_by_flag(initialized, flag, server, selected, local, clients) ==
    IF initialized \/ flag
    THEN IF flag /\ selected > 0
         THEN get_client_data(clients, selected - 1)
         ELSE IF local.alloc THEN HookSource ELSE NoSource
    ELSE NoSource

\* select_source with a fault: no test that a producer has data.
select_source_always(initialized, flag, server, selected, local, clients) ==
    IF server /\ selected > 0
    THEN get_client_data(clients, selected - 1)
    ELSE IF local.alloc THEN HookSource ELSE NoSource

\* Lines 226-237: the source of this cycle.
select_source(initialized, flag, server, selected, local, clients) ==
    IF initialized \/ flag
    THEN IF server /\ selected > 0
         THEN get_client_data(clients, selected - 1)
         ELSE IF local.alloc THEN HookSource ELSE NoSource
    ELSE NoSource

\* fetch_kind with a fault: the GAMEPAD affinity is looked up by key code.
fetch_kind_by_code(element) ==
    CASE element.source = "NONE" -> "none"
      [] OTHER -> "get_by_code"

\* Lines 247-259: which lookup an element's source affinity asks for.
fetch_kind(element) ==
    CASE element.source = "GAMEPAD" -> "get_by_gamepad"
      [] element.source = "NONE" -> "none"
      [] OTHER -> "get_by_code"

fetch(holder, element, g) ==
    CASE fetch_kind(element) = "get_by_gamepad" ->
             get_by_gamepad(holder, g, element.keycode)
      [] fetch_kind(element) = "get_by_code" ->
             get_by_code(holder, element.keycode)
      [] OTHER -> NoFragment

\* merge_invoked with a fault: a null fragment is not merged.
merge_invoked_on_fragment(data, keycode, fragment) ==
    MapGet(data, keycode) # NullData /\ fragment # NoFragment

\* Line 262: merge is called when the entry under the key code is not
\* null, whatever the fragment.
merge_invoked(data, keycode, fragment) ==
    MapGet(data, keycode) # NullData

\* merge_into with a fault: a fragment for a key code without a record
\* makes one.
merge_into_allocating(data, keycode, fragment) ==
    LET touched == MapTouch(data, keycode)
    IN  IF merge_invoked(data, keycode, fragment)
        THEN [touched EXCEPT ![keycode] = merge(@, fragment)]
        ELSE IF fragment # NoFragment
             THEN [touched EXCEPT ![keycode] = [kind |-> "button", state |-> fragment]]
             ELSE touched

\* Lines 262-265: m_data[keycode] is looked up (and so inserted when
\* missing); a record that is not null merges the fragment.
merge_into(data, keycode, fragment) ==
    LET touched == MapTouch(data, keycode)
    IN  IF merge_invoked(data, keycode, fragment)
        THEN [touched EXCEPT ![keycode] = merge(@, fragment)]
        ELSE touched


(***************************************************************************)
(* Initial states: the overlay right after its constructor, which loads.   *)
(***************************************************************************)
\* The overlay and its settings as one record, for the operators above.
Ov ==
    [gamepad |-> gamepad, cx |-> cx, cy |-> cy, m_is_loaded |-> m_is_loaded,
     m_elements |-> m_elements, m_data |-> m_data, m_image |-> m_image,
     flag |-> FALSE]

SetOv(o) ==
    /\ gamepad' = o.gamepad
    /\ cx' = o.cx
    /\ cy' = o.cy
    /\ m_is_loaded' = o.m_is_loaded
    /\ m_elements' = o.m_elements
    /\ m_data' = o.m_data
    /\ m_image' = o.m_image

\* An overlay object before its constructor has run.
Blank ==
    [gamepad |-> 0, cx |-> 0, cy |-> 0, m_is_loaded |-> FALSE,
     m_elements |-> << >>, m_data |-> EmptyMap, m_image |-> FALSE,
     flag |-> FALSE]

\* overlay::overlay: m_is_loaded = load();
construct(image, file, doc) ==
    LET o == load(Blank, image, file, doc)
    IN  [o EXCEPT !.m_is_loaded = o.flag]

NoDocument == [parse |-> "none", chain |-> << >>]

\* The files the settings name: any image, any layout document (which
\* matters only when load_cfg gets to open it).
InitFiles ==
    /\ image_file \in {"", "good", "bad"}
    /\ layout_file \in {"", "layout"}
    /\ document \in IF image_file = "good" /\ layout_file # ""
                     THEN Layouts ELSE {NoDocument}

\* The producers: with the scenario layouts and a good image they act
\* (events), the input thread has or has not started, and the network is
\* up or down; with any other files they are quiet.
InitProducers ==
    /\ hook_mutex = "free"
    /\ network_mutex = "free"
    /\ client_data = [c \in Clients |-> NoHolder]
    /\ \/ /\ image_file = "good" /\ layout_file = "layout"
          /\ document \in ScenarioDocuments
          /\ events = MaxEvents
          /\ selected_source \in Sources
          /\ data_initialized \in BOOLEAN
          /\ network_flag \in BOOLEAN
          /\ server_instance \in BOOLEAN
       \/ /\ events = 0
          /\ data_initialized = FALSE
          /\ selected_source = 0
          /\ network_flag = FALSE
          /\ server_instance = FALSE
    /\ input_data = [NoHolder EXCEPT !.alloc = data_initialized]

Init ==
    /\ InitFiles
    /\ InitProducers
    /\ LET o == construct(image_file, layout_file, document)
       IN  /\ gamepad = o.gamepad
           /\ cx = o.cx
           /\ cy = o.cy
           /\ m_is_loaded = o.m_is_loaded
           /\ m_elements = o.m_elements
           /\ m_data = o.m_data
           /\ m_image = o.m_image
           /\ ret = o.flag
    /\ pc = "idle"
    /\ source = NoSource
    /\ idx = 1
    /\ last_op = "ctor"
    /\ load_over = "blank"
    /\ calls = << >>

(***************************************************************************)
(* The overlay's operations, called on the render thread.                  *)
(***************************************************************************)
producer_vars == << hook_mutex, hook_vars, network_mutex, network_vars >>

Load ==
    /\ pc = "idle"
    /\ LET o == load(Ov, image_file, layout_file, document)
           first == construct(image_file, layout_file, document)
       IN  /\ SetOv(o)
           /\ ret' = o.flag
           /\ load_over' =
                 IF m_elements = first.m_elements /\ m_data = first.m_data
                 THEN "fresh" ELSE "changed"
    /\ last_op' = "load"
    /\ calls' = << >>
    /\ UNCHANGED << settings_vars, producer_vars, refresh_vars, events >>

Unload ==
    /\ pc = "idle"
    /\ SetOv(unload(Ov))
    /\ last_op' = "unload"
    /\ load_over' = "none"
    /\ calls' = << >>
    /\ UNCHANGED << settings_vars, producer_vars, refresh_vars, ret, events >>

Draw ==
    /\ pc = "idle"
    /\ calls' = draw_calls(m_is_loaded, m_data, m_elements)
    /\ m_data' = IF m_is_loaded THEN draw_data(m_data, m_elements, 1) ELSE m_data
    /\ last_op' = "draw"
    /\ load_over' = "none"
    /\ UNCHANGED << settings_vars, gamepad, cx, cy, m_is_loaded, m_elements,
                    m_image, producer_vars, refresh_vars, ret, events >>

\* refresh_data is entered: source = nullptr, then the thread waits for
\* hook::mutex.
RefreshEnter ==
    /\ pc = "idle"
    /\ pc' = "lck1"
    /\ source' = NoSource
    /\ idx' = 1
    /\ last_op' = "refresh"
    /\ load_over' = "none"
    /\ calls' = << >>
    /\ UNCHANGED << settings_vars, overlay_vars, producer_vars, ret, events >>

\* RefreshLockHook with a fault: the thread goes on without hook::mutex.
RefreshLockHookSkipped ==
    /\ pc = "lck1"
    /\ pc' = "lck2"
    /\ UNCHANGED << settings_vars, overlay_vars, hook_mutex, hook_vars,
                    network_mutex, network_vars, source, idx, last_op, ret,
                    load_over, calls, events >>

\* std::lock_guard<std::mutex> lck1(hook::mutex);
RefreshLockHook ==
    /\ pc = "lck1"
    /\ hook_mutex = "free"
    /\ hook_mutex' = "render"
    /\ pc' = "lck2"
    /\ UNCHANGED << settings_vars, overlay_vars, hook_vars, network_mutex,
                    network_vars, source, idx, last_op, ret, load_over, calls, events >>

\* std::lock_guard<std::mutex> lck2(network::mutex);
RefreshLockNetwork ==
    /\ pc = "lck2"
    /\ network_mutex = "free"
    /\ network_mutex' = "render"
    /\ pc' = "select"
    /\ UNCHANGED << settings_vars, overlay_vars, hook_mutex, hook_vars,
                    network_vars, source, idx, last_op, ret, load_over, calls, events >>

\* RefreshSelect with a fault: a cycle with no source returns at once, with
\* both mutexes still locked.
RefreshSelectSkipReturns ==
    /\ pc = "select"
    /\ source' = select_source(data_initialized, network_flag, server_instance,
                               selected_source, input_data, client_data)
    /\ pc' = IF source' = NoSource THEN "idle"
             ELSE IF Len(m_elements) > 0 THEN "pull" ELSE "unlock"
    /\ UNCHANGED << settings_vars, overlay_vars, producer_vars, idx, last_op,
                    ret, load_over, calls, events >>

\* Lines 226-239: the source is selected; the loop runs when there is one.
RefreshSelect ==
    /\ pc = "select"
    /\ source' = select_source(data_initialized, network_flag, server_instance,
                               selected_source, input_data, client_data)
    /\ pc' = IF source' # NoSource /\ Len(m_elements) > 0 THEN "pull" ELSE "unlock"
    /\ UNCHANGED << settings_vars, overlay_vars, producer_vars, idx, last_op,
                    ret, load_over, calls, events >>

\* One pass of the loop over m_elements.
RefreshPull ==
    /\ pc = "pull"
    /\ LET element == m_elements[idx]
           holder == HolderOf(source, input_data, client_data)
           fragment == fetch(holder, element, gamepad)
       IN  /\ m_data' = merge_into(m_data, element.keycode, fragment)
           /\ calls' = Append(calls,
                  [call |-> fetch_kind(element), element |-> idx,
                   keycode |-> element.keycode, holder |-> source,
                   pad |-> IF fetch_kind(element) = "get_by_gamepad"
                           THEN gamepad ELSE 0,
                   fragment |-> fragment,
                   merged |-> merge_invoked(m_data, element.keycode, fragment)])
    /\ idx' = idx + 1
    /\ pc' = IF idx < Len(m_elements) THEN "pull" ELSE "unlock"
    /\ UNCHANGED << settings_vars, gamepad, cx, cy, m_is_loaded, m_elements,
                    m_image, producer_vars, source, last_op, ret, load_over, events >>

\* RefreshUnlock with a fault: hook::mutex stays locked.
RefreshUnlockNetworkOnly ==
    /\ pc = "unlock"
    /\ network_mutex' = "free"
    /\ pc' = "idle"
    /\ UNCHANGED << settings_vars, overlay_vars, hook_mutex, hook_vars,
                    network_vars, source, idx, last_op, ret, load_over, calls,
                    events >>

\* The lock guards go out of scope: network::mutex, then hook::mutex.
RefreshUnlock ==
    /\ pc = "unlock"
    /\ network_mutex' = "free"
    /\ hook_mutex' = "free"
    /\ pc' = "idle"
    /\ UNCHANGED << settings_vars, overlay_vars, hook_vars, network_vars,
                    source, idx, last_op, ret, load_over, calls, events >>

(***************************************************************************)
(* The producer threads and the host.                                      *)
(***************************************************************************)
HookLock ==
    /\ hook_mutex = "free"
    /\ events > 0
    /\ hook_mutex' = "hook"
    /\ UNCHANGED << settings_vars, overlay_vars, hook_vars, network_mutex,
                    network_vars, refresh_vars, last_op, ret, load_over, calls, events >>

\* The input thread stores the state of one key, or of one key of one pad.
HookWrite ==
    /\ hook_mutex = "hook"
    /\ events > 0
    /\ \E f \in {STATE_PRESSED, STATE_RELEASED} :
          \/ \E k \in KeyboardKeys :
                input_data' = [input_data EXCEPT !.alloc = TRUE, !.code[k] = f]
          \/ \E g \in Pads, k \in PadKeys :
                input_data' = [input_data EXCEPT !.alloc = TRUE, !.pad[g][k] = f]
    /\ data_initialized' = TRUE
    /\ events' = events - 1
    /\ UNCHANGED << settings_vars, overlay_vars, hook_mutex, network_mutex,
                    network_vars, refresh_vars, last_op, ret, load_over, calls >>

HookUnlock ==
    /\ hook_mutex = "hook"
    /\ hook_mutex' = "free"
    /\ UNCHANGED << settings_vars, overlay_vars, hook_vars, network_mutex,
                    network_vars, refresh_vars, last_op, ret, load_over, calls, events >>

NetworkLock ==
    /\ network_mutex = "free"
    /\ events > 0
    /\ network_mutex' = "network"
    /\ UNCHANGED << settings_vars, overlay_vars, hook_mutex, hook_vars,
                    network_vars, refresh_vars, last_op, ret, load_over, calls, events >>

\* The network thread stores what a client sent.
NetworkWrite ==
    /\ network_mutex = "network"
    /\ events > 0
    /\ server_instance
    /\ \E c \in Clients, f \in {STATE_PRESSED, STATE_RELEASED} :
          \/ \E k \in KeyboardKeys :
                client_data' = [client_data EXCEPT ![c].alloc = TRUE,
                                                   ![c].code[k] = f]
          \/ \E g \in Pads, k \in PadKeys :
                client_data' = [client_data EXCEPT ![c].alloc = TRUE,
                                                   ![c].pad[g][k] = f]
    /\ events' = events - 1
    /\ UNCHANGED << settings_vars, overlay_vars, hook_mutex, hook_vars,
                    network_mutex, network_flag, server_instance, refresh_vars,
                    last_op, ret, load_over, calls >>

NetworkUnlock ==
    /\ network_mutex = "network"
    /\ network_mutex' = "free"
    /\ UNCHANGED << settings_vars, overlay_vars, hook_mutex, hook_vars,
                    network_vars, refresh_vars, last_op, ret, load_over, calls, events >>

\* The host picks another gamepad in the settings.
SetGamepad ==
    /\ pc = "idle"
    /\ events > 0
    /\ \E g \in Pads \ {gamepad} : gamepad' = g
    /\ events' = events - 1
    /\ last_op' = "settings"
    /\ load_over' = "none"
    /\ UNCHANGED << settings_vars, cx, cy, m_is_loaded, m_elements, m_data,
                    m_image, producer_vars, refresh_vars, ret, calls >>

Next ==
    \/ Load
    \/ Unload
    \/ Draw
    \/ RefreshEnter
    \/ RefreshLockHook
    \/ RefreshLockNetwork
    \/ RefreshSelect
    \/ RefreshPull
    \/ RefreshUnlock
    \/ HookLock
    \/ HookWrite
    \/ HookUnlock
    \/ NetworkLock
    \/ NetworkWrite
    \/ NetworkUnlock
    \/ SetGamepad

Spec == Init /\ [][Next]_vars


(***************************************************************************)
(* Fairness: a thread that holds a mutex releases it, a thread that waits  *)
(* for a mutex that is free again and again gets it, and the render thread *)
(* runs.                                                                   *)
(***************************************************************************)
Fairness ==
    /\ WF_vars(HookUnlock)
    /\ WF_vars(NetworkUnlock)
    /\ SF_vars(RefreshLockHook)
    /\ SF_vars(RefreshLockNetwork)
    /\ WF_vars(RefreshSelect)
    /\ WF_vars(RefreshPull)
    /\ WF_vars(RefreshUnlock)

\* The scenario with two Buttons and a Wheel, loaded with a non-fatal error.
LiveInit ==
    /\ Init
    /\ events = MaxEvents
    /\ document.parse = "error"

LiveSpec == LiveInit /\ [][Next]_vars /\ Fairness

(***************************************************************************)
(* Properties of load.                                                     *)
(***************************************************************************)
\* A load() has just returned (the constructor's included).
AfterLoad == last_op \in {"ctor", "load"}

\* load_cfg opened the layout document.
ConfigRead == image_file = "good" /\ layout_file # ""

\* The load ended without a fatal configuration error.
NonFatalLoad == AfterLoad /\ ConfigRead /\ ~has_fatal_errors(document)

ElementKeycodes == { m_elements[i].keycode : i \in 1..Len(m_elements) }

\* C1: after a load that ends without a fatal configuration error (clean, or
\* with non-fatal errors only), every Element's keycode has an entry in the
\* ElementData collection, and the entry is not null.
C1_KeycodeCoverage ==
    NonFatalLoad =>
        \A k \in ElementKeycodes : k \in DOMAIN m_data /\ m_data[k] # NullData

\* C2: when the layout document has a fatal error at the end of load(), the
\* overlay has no Elements, no ElementData entries, and is not loaded.
C2_FatalShortCircuit ==
    (AfterLoad /\ ConfigRead /\ has_fatal_errors(document)) =>
        /\ Len(m_elements) = 0
        /\ DOMAIN m_data = {}
        /\ ~m_is_loaded

\* C3, as claimed: on any load() failure gamepad is 0, the logical size is
\* 100 x 100, and is_loaded is false.
C3_FailureResetsAll ==
    (AfterLoad /\ ~ret) =>
        /\ gamepad = 0
        /\ cx = DefaultSize /\ cy = DefaultSize
        /\ ~m_is_loaded

\* C3, amended: on any load() failure gamepad is 0 and is_loaded is false;
\* the logical size is 100 x 100 when the texture was not loaded; when the
\* texture was loaded and the layout failed, the size is the image's pixel
\* size (empty layout path, or a document that does not parse) or the
\* layout's total width and height (a fatal error met while reading it).
C3_FailureResets ==
    (AfterLoad /\ ~ret) =>
        /\ gamepad = 0
        /\ ~m_is_loaded
        /\ << cx, cy >> =
              IF ~m_image THEN << DefaultSize, DefaultSize >>
              ELSE IF layout_file = "" \/ ParseFatal(document) THEN ImageSize
              ELSE LayoutSize

\* C3 witness: a failed load with the texture loaded, which keeps the
\* image's size.
C3_Witness ==
    /\ last_op = "load" /\ ~ret /\ m_image
    /\ << cx, cy >> = ImageSize

\* C4: when load() returns, is_loaded is true iff the texture was loaded and
\* the layout was loaded without a fatal error, and load() returned
\* is_loaded.
C4_LoadedIff ==
    AfterLoad =>
        /\ m_is_loaded <=>
              (m_image /\ layout_file # "" /\ ~has_fatal_errors(document))
        /\ ret = m_is_loaded

\* C4 witness: a load that read the texture and failed on the layout's fatal
\* error, after some Elements were made.
C4_Witness ==
    /\ last_op = "load" /\ m_image /\ ~m_is_loaded /\ layout_file # ""
    /\ Len(m_elements) > 0

\* C5: with the files unchanged, a load() called again, after any draw,
\* refresh or unload, ends with the is_loaded, the Elements and the
\* ElementData collection the first load (the constructor's) ended with.
C5_ReloadIdempotent ==
    last_op = "load" =>
        LET first == construct(image_file, layout_file, document)
        IN  /\ m_is_loaded = first.m_is_loaded
            /\ ret = first.flag
            /\ m_elements = first.m_elements
            /\ m_data = first.m_data

\* C5 witness: a load called on collections that a refresh or a draw had
\* changed, which ends loaded, with records.
C5_Witness ==
    /\ last_op = "load" /\ load_over = "changed" /\ m_is_loaded
    /\ \E k \in DOMAIN m_data : m_data[k] # NullData


(***************************************************************************)
(* Properties of refresh_data and draw.                                    *)
(***************************************************************************)
\* The source of the cycle has been selected.
Selected == pc \in {"pull", "unlock"}

\* The holders the fragments pulled so far in this cycle came from.
PulledFrom == { calls[i].holder : i \in 1..Len(calls) }

\* C6, as claimed: in a cycle with the network flag set and a non-zero
\* selected source, every fragment comes from client selected_source - 1
\* and none from the local producer; with selected source 0 or the network
\* flag not set, the local producer's holder is the one selected (when a
\* source is selected at all).
C6_ExclusiveByFlag ==
    Selected =>
        IF network_flag /\ selected_source # 0
        THEN PulledFrom \subseteq {ClientSource(selected_source - 1)}
        ELSE source \in {HookSource, NoSource}

\* C6, amended: the remote client is chosen by the server handle, not by the
\* network flag. In a cycle in which the local producer is initialized or
\* the network flag is set: with a server instance and a selected source
\* greater than 0, every fragment comes from client selected_source - 1 and
\* none from the local producer; with selected source 0 or no server
\* instance, the local producer's holder is the one selected. In any other
\* cycle no source is selected.
C6_ExclusiveByServer ==
    Selected =>
        IF data_initialized \/ network_flag
        THEN IF server_instance /\ selected_source > 0
             THEN /\ source \in {ClientSource(selected_source - 1), NoSource}
                  /\ PulledFrom \subseteq {ClientSource(selected_source - 1)}
             ELSE /\ source = IF input_data.alloc THEN HookSource ELSE NoSource
                  /\ PulledFrom \subseteq {HookSource}
        ELSE source = NoSource /\ PulledFrom = {}

\* C6 witness: a cycle with the network flag down and the local producer
\* initialized has pulled a fragment a client sent.
C6_Witness ==
    /\ pc = "unlock" /\ ~network_flag /\ data_initialized
    /\ \E i \in 1..Len(calls) :
          /\ calls[i].holder = ClientSource(selected_source - 1)
          /\ calls[i].fragment # NoFragment

\* C7: a draw() with is_loaded false makes no per-element draw call.
C7_DrawWithoutLoad ==
    (last_op = "draw" /\ ~m_is_loaded) => calls = << >>

\* C7 witness: a draw with is_loaded false on an overlay that holds Elements.
C7_Witness ==
    last_op = "draw" /\ ~m_is_loaded /\ Len(m_elements) > 0

\* The key codes of the Elements whose kind has a record.
StateKeycodes ==
    { m_elements[i].keycode :
        i \in { j \in 1..Len(m_elements) : new_data(m_elements[j].type) # NullData } }

\* The fragments this cycle pulled for key code k.
PulledFor(k) ==
    { calls[i].fragment : i \in { j \in 1..Len(calls) : calls[j].keycode = k } }

\* C8: after a load without a fatal error the ElementData collection has
\* exactly one entry per distinct key code of the state-carrying Elements,
\* every one released; and at the end of a refresh cycle on the local
\* producer, the record of a key code for which the producer reported
\* pressed is pressed.
C8_SharedRecord ==
    /\ NonFatalLoad =>
          /\ DOMAIN m_data = StateKeycodes
          /\ \A k \in DOMAIN m_data :
                m_data[k] # NullData /\ m_data[k].state = STATE_RELEASED
    /\ (pc = "unlock" /\ source = HookSource /\ m_is_loaded) =>
          \A k \in StateKeycodes :
             PulledFor(k) = {STATE_PRESSED} =>
                MapGet(m_data, k).state = STATE_PRESSED

\* C8 on the loads that populate the collection (a configuration with
\* errors, none fatal): there it holds.
C8_SharedRecordWithErrors ==
    has_errors(document) => C8_SharedRecord

\* C9: in a cycle in which neither the local producer is initialized nor the
\* network flag is set, no step merges, and the ElementData collection
\* stays as it is.
C9_SkippedCycle ==
    [][ (pc \in {"select", "pull", "unlock"}
            /\ ~(data_initialized \/ network_flag))
        => /\ m_data' = m_data
           /\ calls' = calls
           /\ pc' \in {"unlock", "idle"} ]_vars

\* C9 witness: a skipped cycle is over, with records in the collection and
\* a server and a client holder that a mistaken selection would have used.
C9_Witness ==
    /\ pc = "unlock" /\ ~(data_initialized \/ network_flag)
    /\ \E k \in DOMAIN m_data : m_data[k] # NullData
    /\ server_instance /\ selected_source > 0
    /\ get_client_data(client_data, selected_source - 1) # NoSource
    /\ calls = << >>

\* C10: every refresh cycle that has started comes to its end with the
\* render thread holding neither mutex.
C10_RefreshCompletes ==
    (pc # "idle") ~>
        (pc = "idle" /\ hook_mutex # "render" /\ network_mutex # "render")

\* C10 witness: the render thread holds hook::mutex and waits for
\* network::mutex, which the network thread holds.
C10_Witness ==
    pc = "lck2" /\ hook_mutex = "render" /\ network_mutex = "network"

\* C11: from the step that reads the initialized flag, the network flag and
\* the server handle to the last fragment fetched, the render thread holds
\* hook::mutex and network::mutex, no producer record changes, and the
\* source selected for the cycle stays the one selected.
C11_NoTornRead ==
    [][ (pc \in {"select", "pull"})
        => /\ hook_mutex = "render" /\ network_mutex = "render"
           /\ hook_vars' = hook_vars
           /\ network_vars' = network_vars
           /\ (pc = "pull" => source' = source) ]_vars

\* C11 witness: in the middle of a cycle, under both mutexes, the thread
\* has fetched a fragment a producer wrote and has Elements left.
C11_Witness ==
    /\ pc = "pull" /\ idx > 1
    /\ hook_mutex = "render" /\ network_mutex = "render"
    /\ calls[1].fragment # NoFragment

C13_PullByAffinity ==
    Selected =>
        \A i \in 1..Len(calls) :
            LET c == calls[i]
                e == m_elements[c.element]
                h == HolderOf(source, input_data, client_data)
            IN  CASE e.source = "GAMEPAD" ->
                         /\ c.call = "get_by_gamepad"
                         /\ c.pad = gamepad
                         /\ c.fragment = h.pad[gamepad][e.keycode]
                  [] e.source \in {"DEFAULT", "MOUSE_POS"} ->
                         /\ c.call = "get_by_code"
                         /\ c.fragment = h.code[e.keycode]
                  [] e.source = "NONE" ->
                         /\ c.call = "none"
                         /\ c.fragment = NoFragment

\* C13 witness: a cycle over a GAMEPAD, a NONE and a MOUSE_POS Element has
\* fetched a pressed state by gamepad and key code.
C13_Witness ==
    /\ pc = "unlock"
    /\ { m_elements[calls[i].element].source : i \in 1..Len(calls) }
          = {"GAMEPAD", "NONE", "MOUSE_POS"}
    /\ \E i \in 1..Len(calls) :
          calls[i].call = "get_by_gamepad" /\ calls[i].fragment = STATE_PRESSED

\* C14: a draw(), loaded or not, leaves the ElementData collection as it
\* was, its set of keys and every record, and takes no mutex.
C14_DrawLeavesData ==
    [][ Draw => /\ DOMAIN m_data' = DOMAIN m_data
                /\ m_data' = m_data
                /\ hook_mutex' = hook_mutex
                /\ network_mutex' = network_mutex ]_vars

\* The Elements a chain of descriptors stands for: one per descriptor whose
\* kind is neither Text nor an unknown tag, in the order of the chain.
ElementOf(d) == [type |-> d.type, keycode |-> d.keycode, source |-> d.source]

RECURSIVE ChainElements(_)
ChainElements(chain) ==
    IF chain = << >> THEN << >>
    ELSE IF Head(chain).type \in {"TEXT", "INVALID"}
         THEN ChainElements(Tail(chain))
         ELSE << ElementOf(Head(chain)) >> \o ChainElements(Tail(chain))

\* C15: a draw() with is_loaded true calls the draw routine of every Element
\* once, in the order of the configuration chain, each with the ElementData
\* entry stored under the Element's own key code.
C15_DrawOrder ==
    (last_op = "draw" /\ m_is_loaded) =>
        /\ Len(calls) = Len(m_elements)
        /\ m_elements # << >> => m_elements = ChainElements(document.chain)
        /\ \A i \in 1..Len(calls) :
              /\ calls[i].call = "draw"
              /\ calls[i].element = i
              /\ calls[i].keycode = m_elements[i].keycode
              /\ calls[i].data = MapGet(m_data, m_elements[i].keycode)

\* C15 witness: a draw of three Elements, the first and the last on
\* different key codes, the first with a record.
C15_Witness ==
    /\ last_op = "draw" /\ m_is_loaded /\ Len(calls) = 3
    /\ calls[1].keycode # calls[3].keycode
    /\ calls[1].data # NullData

\* The positions of the Elements with key code k, and of those among them
\* whose kind has a record.
ElementsOn(k) == { i \in 1..Len(m_elements) : m_elements[i].keycode = k }
CarriersOn(k) ==
    { i \in ElementsOn(k) : new_data(m_elements[i].type) # NullData }

Min(S) == CHOOSE i \in S : \A j \in S : i <= j
Max(S) == CHOOSE i \in S : \A j \in S : i >= j

\* C16, as claimed: after a load, the entry of a key code that several
\* Elements share holds the variant of the first of them.
C16_FirstVariant ==
    AfterLoad =>
        \A k \in DOMAIN m_data :
            m_data[k].kind = new_data(m_elements[Min(ElementsOn(k))].type).kind

\* C16, amended: after a load, every entry of the collection is the fresh
\* record of the variant of the last Element of the sequence that has this
\* key code and a kind with a record.
C16_LastVariant ==
    AfterLoad =>
        \A k \in DOMAIN m_data :
            /\ CarriersOn(k) # {}
            /\ m_data[k] = new_data(m_elements[Max(CarriersOn(k))].type)

\* C16 witness: a load made an entry for a key code that two Elements of
\* different kinds share.
C16_Witness ==
    /\ last_op = "load"
    /\ \E k \in DOMAIN m_data :
          /\ m_data[k] # NullData
          /\ \E i, j \in CarriersOn(k) : m_elements[i].type # m_elements[j].type

\* C17: when load_cfg walks the chain, a descriptor of the Text kind or of
\* an unknown kind adds no Element and the walk goes on: the Elements are
\* the descriptors of the other kinds, one each, in the order of the chain,
\* up to its end.
C17_UnrecognizedSkipped ==
    (AfterLoad /\ ConfigRead /\ ~ParseFatal(document)) =>
        m_elements = ChainElements(document.chain)

\* C17 witness: a load of a chain with a descriptor of an unknown kind
\* between two that make Elements.
C17_Witness ==
    /\ last_op = "load" /\ ConfigRead /\ ~ParseFatal(document)
    /\ Len(document.chain) = 3
    /\ document.chain[2].type = "INVALID"
    /\ Len(m_elements) = 2

\* C18: the render thread holds hook::mutex and network::mutex only inside
\* refresh_data, after the lock guard of each: outside a cycle, where every
\* draw(), load() and unload() (the graphics context of the texture) starts,
\* it holds neither, whether the cycle before merged or was skipped.
C18_LockScope ==
    /\ hook_mutex = "render" => pc \in {"lck2", "select", "pull", "unlock"}
    /\ network_mutex = "render" => pc \in {"select", "pull", "unlock"}
    /\ pc = "idle" => (hook_mutex # "render" /\ network_mutex # "render")

\* C18 witness: a skipped cycle is over and the loaded overlay is about to
\* be drawn.
C18_Witness ==
    /\ last_op = "refresh" /\ pc = "idle" /\ source = NoSource
    /\ m_is_loaded /\ Len(m_elements) > 0
    /\ ENABLED Draw

\* C19: in every state, is_loaded true means that the texture and the
\* Elements of the last successful load are still held; after an unload()
\* with no load() since, is_loaded is false.
C19_LoadedImpliesContent ==
    /\ m_is_loaded =>
          /\ m_image
          /\ m_elements = ChainElements(document.chain)
    /\ last_op = "unload" => ~m_is_loaded

\* The key codes that map to a record.
RecordKeys(map) == { k \in DOMAIN map : map[k] # NullData }

\* C20: a step that is not a load() or an unload() leaves the set of key
\* codes that map to a record as it is, and every record the same record
\* of the same variant: a refresh changes only the values in it, a draw
\* nothing.
C20_RecordsOnlyByLoad ==
    [][ \/ /\ RecordKeys(m_data') = RecordKeys(m_data)
           /\ \A k \in RecordKeys(m_data) :
                 /\ m_data'[k].kind = m_data[k].kind
                 /\ m_data'[k] = m_data[k] \/ ~Draw
        \/ Load
        \/ Unload ]_vars

\* C20 witness: a refresh has set a record to pressed, in a collection
\* with a null entry that a lookup of a key code without a record inserted.
C20_Witness ==
    /\ Selected
    /\ \E k \in RecordKeys(m_data) : m_data[k].state = STATE_PRESSED
    /\ \E k \in DOMAIN m_data : m_data[k] = NullData

====
